---------------------------- MODULE Spec2Model ----------------------------
(* Batch image-conversion queue of src/App.tsx: the queue held in React   *)
(* state, the user operations on it (handleFiles, removeItem, clearQueue, *)
(* the settings toggle, Start Conversion) and the asynchronous loop of    *)
(* processBatch, one action per await point.                              *)
EXTENDS Integers, Sequences, FiniteSets, TLC

(* ------------------------------ bounds ------------------------------ *)
\* files accepted over a whole behaviour (also bounds the ids generated)
MaxFiles == 2
\* processBatch invocations over a whole behaviour
MaxRuns == 2

(* ------------------------------ values ------------------------------ *)
\* AppStatus (imported from ./types; the four members App.tsx uses)
IDLE == "IDLE"
PROCESSING == "PROCESSING"
COMPLETE == "COMPLETE"
ERROR == "ERROR"
AppStatus == {IDLE, PROCESSING, COMPLETE, ERROR}

\* MIME types of the files offered to handleFiles: one image, one not
FileTypes == {"image/png", "text/plain"}

\* what analyzeImage answers when it resolves: a description and tags
Analyses == {[description |-> "desc", tags |-> <<"tag">>]}

\* file names, as the segments between their dots: name.split('.')
DefaultName == <<"a", "png">>
FileNames == {DefaultName, <<"b", "x", "png">>}

\* MIME types of the output formats, as the parts around the slash:
\* format.split('/'); the raster formats are those of the format buttons
JPEG == <<"image", "jpeg">>
PNG == <<"image", "png">>
SVG == <<"image", "svg+xml">>
RasterFormats == {JPEG, PNG}

VARIABLES
  queue,     \* useState<QueueItem[]>: the items, in insertion order
  settings,  \* useState<ConversionSettings>
  runs,      \* the processBatch invocations: position, snapshot, locals
  urls,      \* object URLs created so far: urls[u] = times u was revoked
  nextId,    \* the number of ids generateId has handed out, plus one
  isZipping, \* useState(false)
  zip        \* the downloadAll invocation: position and the JSZip entries

vars == <<queue, settings, runs, urls, nextId, isZipping, zip>>

\* the state downloadAll works on
export == <<isZipping, zip>>

(* ----------------------------- helpers ------------------------------ *)
Ids(q) == {q[k].id : k \in 1..Len(q)}

\* file.type.startsWith('image/')
IsImage(type) == type \in {"image/png"}

\* queue.some(item => item.status === AppStatus.PROCESSING)
isProcessing == \E k \in 1..Len(queue) : queue[k].status = PROCESSING

\* queue.length > 0 && queue.every(item => item.status === COMPLETE)
isAllComplete ==
  Len(queue) > 0 /\ \A k \in 1..Len(queue) : queue[k].status = COMPLETE

\* URL.createObjectURL: a URL never handed out before, not yet revoked
createObjectURL(u) == Append(u, 0)

\* URL.revokeObjectURL applied to each URL of the set S
revokeObjectURL(u, S) ==
  [k \in 1..Len(u) |-> IF k \in S THEN u[k] + 1 ELSE u[k]]

\* the URLs an item holds: previewUrl and, when present, result.url
ItemUrls(item) ==
  {item.previewUrl} \cup {item.result[k].url : k \in 1..Len(item.result)}

(* ------------------------------- Init ------------------------------- *)
\* the initial settings (quality in tenths); of the controls, the mode,
\* format and AI ones are modelled, so quality, resizeRatio and colorCount
\* keep these values
DefaultSettings ==
  [format |-> JPEG, quality |-> 8, resizeRatio |-> 1, useAIAnalysis |-> FALSE,
   isVector |-> FALSE, colorCount |-> 16]

NoRun ==
  [pc |-> "none", items |-> <<>>, idx |-> 0, settings |-> DefaultSettings,
   url |-> 0, failed |-> {}, aiFailed |-> {}]

\* last: what the previous downloadAll ended with, the click on the
\* archive's link ("saved") or the logged error ("error")
NoZip == [pc |-> "none", files |-> {}, last |-> "none"]

Init ==
  /\ queue = <<>>
  /\ settings = DefaultSettings
  /\ runs = [r \in 1..MaxRuns |-> NoRun]
  /\ urls = <<>>
  /\ nextId = 1
  /\ isZipping = FALSE
  /\ zip = NoZip

(* --------------------------- queue manager -------------------------- *)
\* generateId: nine base-36 digits of Math.random(); the n-th id handed out
\* is taken to differ from the n - 1 before it
generateId(n) == n

\* the items handleFiles builds from a FileList: the image files, in input
\* order, each with a new id, a preview URL and status IDLE
RECURSIVE NewItems(_, _, _)
NewItems(files, id, url) ==
  IF files = <<>> THEN <<>>
  ELSE IF IsImage(Head(files).type)
       THEN <<[id |-> generateId(id), file |-> Head(files),
               previewUrl |-> url,
               status |-> IDLE, result |-> <<>>, error |-> <<>>]>>
            \o NewItems(Tail(files), id + 1, url + 1)
       ELSE NewItems(Tail(files), id, url)

RECURSIVE Zeros(_)
Zeros(n) == IF n = 0 THEN <<>> ELSE <<0>> \o Zeros(n - 1)

\* the FileLists offered by the picker or a drop: one file or two
Files == [name : {DefaultName}, type : FileTypes]
FileLists == {<<f>> : f \in Files} \cup {<<f, g>> : f \in Files, g \in Files}

\* the same with files of different names
NamedFiles == [name : FileNames, type : FileTypes]
NamedFileLists ==
  {<<f>> : f \in NamedFiles} \cup {<<f, g>> : f \in NamedFiles, g \in NamedFiles}

\* faulty variant: the new items are put in front of the queue
handleFilesPrepend(files) ==
  LET newItems == NewItems(files, nextId, Len(urls) + 1) IN
  /\ nextId + Len(newItems) <= MaxFiles + 1
  /\ queue' = newItems \o queue
  /\ urls' = urls \o Zeros(Len(newItems))
  /\ nextId' = nextId + Len(newItems)
  /\ UNCHANGED <<settings, runs, export>>

handleFiles(files) ==
  LET newItems == NewItems(files, nextId, Len(urls) + 1) IN
  /\ nextId + Len(newItems) <= MaxFiles + 1
  /\ queue' = queue \o newItems
  /\ urls' = urls \o Zeros(Len(newItems))
  /\ nextId' = nextId + Len(newItems)
  /\ UNCHANGED <<settings, runs, export>>

\* prev.find(i => i.id === id): the position of the first item with this
\* id, if any
Found(q, id) ==
  {k \in 1..Len(q) : q[k].id = id /\ \A j \in 1..(k - 1) : q[j].id # id}

\* faulty variant: the output URL of the removed item is not revoked
removeItemPreviewOnly(q, id) == {q[k].previewUrl : k \in Found(q, id)}

\* the URLs removeItem revokes: previewUrl and, if (item.result), result.url
\* of the item found
removeItemRevoked(q, id) == UNION {ItemUrls(q[k]) : k \in Found(q, id)}

\* prev.filter(i => i.id !== id)
removeItemFiltered(q, id) == SelectSeq(q, LAMBDA i : i.id # id)

\* the values generateId can return: Math.random keeps no record of what it
\* returned, so any value of the id space may come again
GeneratedIds == 1..MaxFiles

\* the items handleFiles builds when generateId returns ids[1], ids[2], ...
RECURSIVE NewItemsWithIds(_, _, _)
NewItemsWithIds(files, ids, url) ==
  IF files = <<>> THEN <<>>
  ELSE IF IsImage(Head(files).type)
       THEN <<[id |-> Head(ids), file |-> Head(files), previewUrl |-> url,
               status |-> IDLE, result |-> <<>>, error |-> <<>>]>>
            \o NewItemsWithIds(Tail(files), Tail(ids), url + 1)
       ELSE NewItemsWithIds(Tail(files), ids, url)

\* handleFiles with the ids drawn by Math.random
handleFilesWithIds(files, ids) ==
  LET newItems == NewItemsWithIds(files, ids, Len(urls) + 1) IN
  /\ nextId + Len(newItems) <= MaxFiles + 1
  /\ queue' = queue \o newItems
  /\ urls' = urls \o Zeros(Len(newItems))
  /\ nextId' = nextId + Len(newItems)
  /\ UNCHANGED <<settings, runs, export>>

\* the remove button of an item of the queue
removeItem(id) ==
  /\ id \in Ids(queue)
  /\ urls' = revokeObjectURL(urls, removeItemRevoked(queue, id))
  /\ queue' = removeItemFiltered(queue, id)
  /\ UNCHANGED <<settings, runs, nextId, export>>

clearQueue ==
  /\ Len(queue) > 0
  /\ urls' = revokeObjectURL(urls,
               UNION {ItemUrls(queue[k]) : k \in 1..Len(queue)})
  /\ queue' = <<>>
  /\ UNCHANGED <<settings, runs, nextId, export>>

toggleAI ==
  /\ Len(queue) > 0
  /\ settings' = [settings EXCEPT !.useAIAnalysis = ~settings.useAIAnalysis]
  /\ UNCHANGED <<queue, runs, urls, nextId, export>>

\* the Raster button
setRaster ==
  /\ Len(queue) > 0
  /\ settings' = [settings EXCEPT !.isVector = FALSE, !.format = JPEG]
  /\ UNCHANGED <<queue, runs, urls, nextId, export>>

\* the Vector button
setVector ==
  /\ Len(queue) > 0
  /\ settings' = [settings EXCEPT !.isVector = TRUE, !.format = SVG]
  /\ UNCHANGED <<queue, runs, urls, nextId, export>>

\* a format button, rendered in raster mode
setFormat(fmt) ==
  /\ Len(queue) > 0
  /\ ~settings.isVector
  /\ settings' = [settings EXCEPT !.format = fmt]
  /\ UNCHANGED <<queue, runs, urls, nextId, export>>

(* -------------------------- batch orchestrator ---------------------- *)
\* faulty variant: the filter lets every item through that is not PROCESSING
IsPendingOrComplete(item) == item.status # PROCESSING

\* item.status === AppStatus.IDLE || item.status === AppStatus.ERROR
IsPending(item) == item.status \in {IDLE, ERROR}

\* of a snapshot item the loop reads the id and the file only
Snapshot(item) == [id |-> item.id, file |-> item.file]

\* faulty variant: the filter forgets the ERROR items
itemsToProcessIdleOnly(q) ==
  LET pending == SelectSeq(q, LAMBDA i : i.status = IDLE) IN
  [k \in 1..Len(pending) |-> Snapshot(pending[k])]

\* queue.filter(...): the pending snapshot, in queue order
itemsToProcess(q) ==
  LET pending == SelectSeq(q, IsPending) IN
  [k \in 1..Len(pending) |-> Snapshot(pending[k])]

\* faulty variant: only the item about to be converted is marked
MarkProcessingFirst(q, items) ==
  [k \in 1..Len(q) |->
     IF q[k].id = items[1].id THEN [q[k] EXCEPT !.status = PROCESSING]
     ELSE q[k]]

\* setQueue(prev => prev.map(item => itemsToProcess.find(...) ? {...item,
\* status: PROCESSING} : item)): the other fields are carried over
MarkProcessing(q, items) ==
  [k \in 1..Len(q) |->
     IF q[k].id \in Ids(items) THEN [q[k] EXCEPT !.status = PROCESSING]
     ELSE q[k]]

\* faulty variant: the update is keyed by the place the item had when the
\* queue was filled, not by its id
MarkCompleteAt(q, id, result) ==
  [k \in 1..Len(q) |->
     IF k = id
     THEN [q[k] EXCEPT !.status = COMPLETE, !.result = <<result>>]
     ELSE q[k]]

\* setQueue(prev => prev.map(i => i.id === id ? {...i, status: COMPLETE,
\* result} : i))
MarkComplete(q, id, result) ==
  [k \in 1..Len(q) |->
     IF q[k].id = id
     THEN [q[k] EXCEPT !.status = COMPLETE, !.result = <<result>>]
     ELSE q[k]]

\* faulty variant: the catch block leaves the item as it is
MarkErrorForgotten(q, id) == q

\* setQueue(prev => prev.map(i => i.id === id ? {...i, status: ERROR,
\* error: "Failed"} : i))
MarkError(q, id) ==
  [k \in 1..Len(q) |->
     IF q[k].id = id
     THEN [q[k] EXCEPT !.status = ERROR, !.error = <<"Failed">>]
     ELSE q[k]]

\* faulty variant: the loop walks the snapshot from its end
CurrentItemReversed(run) == run.items[Len(run.items) + 1 - run.idx]

\* the item the for-of loop is at
CurrentItem(run) == run.items[run.idx]

\* the loop goes on to the next item of the snapshot, or the function ends
NextIteration(run) ==
  IF run.idx < Len(run.items)
  THEN [run EXCEPT !.idx = run.idx + 1, !.pc = "convert", !.url = 0]
  ELSE [run EXCEPT !.idx = run.idx + 1, !.pc = "done", !.url = 0]

\* faulty variant: the try/catch encloses the loop, a failure ends the run
AfterCatchAbort(run) ==
  [run EXCEPT !.idx = run.idx + 1, !.pc = "done", !.url = 0]

\* the catch block of the loop body: the loop continues after it
AfterCatch(run) == NextIteration(run)

\* the Start Conversion button: rendered only with a non-empty queue that
\* is not all complete, and disabled while an item is PROCESSING
StartEnabled ==
  /\ Len(queue) > 0
  /\ ~isAllComplete
  /\ ~(isProcessing \/ \A k \in 1..Len(queue) : queue[k].status = COMPLETE)

\* faulty variant: the map marks every item, selected or not
processBatchQueueAll(q) ==
  IF Len(itemsToProcess(q)) = 0 THEN q
  ELSE [k \in 1..Len(q) |-> [q[k] EXCEPT !.status = PROCESSING]]

\* what processBatch makes of the queue: if (itemsToProcess.length === 0)
\* return, else the selected items are marked
processBatchQueue(q) ==
  LET items == itemsToProcess(q) IN
  IF Len(items) = 0 THEN q ELSE MarkProcessing(q, items)

\* faulty variant: the early return is missing
processBatchRunAlways(q, s) ==
  [NoRun EXCEPT !.pc = "convert", !.items = itemsToProcess(q), !.idx = 1,
                !.settings = s]

\* the run processBatch starts: none after the early return, else the loop
\* at its first await, over the snapshot, with the settings of this render
processBatchRun(q, s) ==
  LET items == itemsToProcess(q) IN
  IF Len(items) = 0 THEN NoRun
  ELSE [NoRun EXCEPT !.pc = "convert", !.items = items, !.idx = 1,
                     !.settings = s]

\* processBatch up to its first await, called by the Start Conversion
\* button
processBatch(r) ==
  /\ StartEnabled
  /\ runs[r].pc = "none"
  /\ \A p \in 1..(r - 1) : runs[p].pc # "none"
  /\ queue' = processBatchQueue(queue)
  /\ runs' = [runs EXCEPT ![r] = processBatchRun(queue, settings)]
  /\ UNCHANGED <<settings, urls, nextId, export>>

\* faulty variant: the loop reads the settings of the latest render
LiveSettings(r) == settings

\* the settings the loop reads: those of the render processBatch was
\* created in, held by its closure
ClosureSettings(r) == runs[r].settings

\* the blob processImageClientSide resolves with, known by the arguments of
\* the call that produced it
processImageClientSide(file, format, quality, resizeRatio, isVector, colorCount) ==
  [file |-> file, format |-> format, quality |-> quality,
   resizeRatio |-> resizeRatio, isVector |-> isVector,
   colorCount |-> colorCount]

\* the blob of the item the loop is at (lines 101 to 108)
Blob(r) ==
  LET s == ClosureSettings(r) IN
  processImageClientSide(CurrentItem(runs[r]).file, s.format, s.quality,
                         s.resizeRatio, s.isVector, s.colorCount)

\* the result assembled at line 125
ProcessedResult(blob, url, aiDesc, aiTags) ==
  [blob |-> blob, url |-> url, aiDescription |-> aiDesc, aiTags |-> aiTags]

\* line 126 and the end of the loop body
Complete(r, url, aiDesc, aiTags) ==
  LET id == CurrentItem(runs[r]).id IN
  /\ queue' = MarkComplete(queue, id,
                           ProcessedResult(Blob(r), url, aiDesc, aiTags))
  /\ runs' = [runs EXCEPT ![r] = NextIteration(runs[r])]

\* await processImageClientSide(...) resolves with a blob
convertResolved(r) ==
  /\ runs[r].pc = "convert"
  /\ urls' = createObjectURL(urls)
  /\ IF ClosureSettings(r).useAIAnalysis
     THEN /\ runs' = [runs EXCEPT ![r].pc = "b64", ![r].url = Len(urls')]
          /\ UNCHANGED queue
     ELSE Complete(r, Len(urls'), "", <<>>)
  /\ UNCHANGED <<settings, nextId, export>>

\* await processImageClientSide(...) rejects: the outer catch
convertRejected(r) ==
  LET id == CurrentItem(runs[r]).id IN
  /\ runs[r].pc = "convert"
  /\ queue' = MarkError(queue, id)
  /\ runs' = [runs EXCEPT ![r] =
       AfterCatch([runs[r] EXCEPT !.failed = runs[r].failed \cup {id}])]
  /\ UNCHANGED <<settings, urls, nextId, export>>

\* await blobToBase64(item.file) resolves: analyzeImage is called
base64Resolved(r) ==
  /\ runs[r].pc = "b64"
  /\ runs' = [runs EXCEPT ![r].pc = "analyze"]
  /\ UNCHANGED <<queue, settings, urls, nextId, export>>

\* faulty variant: a single try/catch, an annotation failure reaches the outer catch
AnnotationFailedOuter(r) ==
  LET id == CurrentItem(runs[r]).id
      run == [runs[r] EXCEPT !.aiFailed = runs[r].aiFailed \cup {id}] IN
  /\ queue' = MarkError(queue, id)
  /\ runs' = [runs EXCEPT ![r] = AfterCatch(run)]
  /\ UNCHANGED <<settings, urls, nextId, export>>

\* the inner catch: aiDesc and aiTags keep their initial values
AnnotationFailed(r) ==
  LET id == CurrentItem(runs[r]).id
      run == [runs[r] EXCEPT !.aiFailed = runs[r].aiFailed \cup {id}] IN
  /\ queue' = MarkComplete(queue, id,
                           ProcessedResult(Blob(r), run.url, "", <<>>))
  /\ runs' = [runs EXCEPT ![r] = NextIteration(run)]
  /\ UNCHANGED <<settings, urls, nextId, export>>

\* await blobToBase64(item.file) rejects: the inner catch
base64Rejected(r) ==
  /\ runs[r].pc = "b64"
  /\ AnnotationFailed(r)

\* await analyzeImage(...) resolves with a description and tags
analyzeResolved(r, analysis) ==
  /\ runs[r].pc = "analyze"
  /\ Complete(r, runs[r].url, analysis.description, analysis.tags)
  /\ UNCHANGED <<settings, urls, nextId, export>>

\* await analyzeImage(...) rejects: the inner catch
analyzeRejected(r) ==
  /\ runs[r].pc = "analyze"
  /\ AnnotationFailed(r)

(* ------------------------- annotation adapter ---------------------- *)
\* the empty result the adapter turns a remote failure into
EmptyAnalysis == [description |-> "", tags |-> <<>>]

\* faulty variant: the adapter waits for the remote call without a limit
analyzeWaitsForever(r) ==
  /\ FALSE
  /\ UNCHANGED vars

\* the adapter's timeout: the remote call has not answered in time and
\* analyzeImage resolves with the empty result
analyzeTimedOut(r) ==
  /\ runs[r].pc = "analyze"
  /\ Complete(r, runs[r].url, EmptyAnalysis.description, EmptyAnalysis.tags)
  /\ UNCHANGED <<settings, urls, nextId, export>>

(* ------------------------------ export ----------------------------- *)
\* getExtension: the part of settings.format after the slash, with
\* svg+xml turned into svg
getExtension(s) ==
  LET ext == s.format[2] IN IF ext = "svg+xml" THEN "svg" ELSE ext

\* faulty variant: the last segment of the name is taken for its base
ConvertedNameLast(item, ext) ==
  [base |-> item.file.name[Len(item.file.name)], suffix |-> "_converted",
   ext |-> ext]

\* `${item.file.name.split('.')[0]}_converted.${ext}`
ConvertedName(item, ext) ==
  [base |-> item.file.name[1], suffix |-> "_converted", ext |-> ext]

\* downloadFile: the link it clicks, or nothing without a result
downloadFile(item, s) ==
  IF item.result = <<>> THEN <<>>
  ELSE <<[href |-> item.result[1].url,
          download |-> ConvertedName(item, getExtension(s))]>>

\* queue.filter(item => item.status === COMPLETE && item.result)
completedItems(q) ==
  SelectSeq(q, LAMBDA i : i.status = COMPLETE /\ i.result # <<>>)

\* zip.file(name, data): an entry of that name is replaced
ZipFile(files, name, data) ==
  {f \in files : f.name # name} \cup {[name |-> name, data |-> data]}

\* completedItems.forEach(item => zip.file(..., item.result.blob))
RECURSIVE ZipAll(_, _, _)
ZipAll(files, items, ext) ==
  IF items = <<>> THEN files
  ELSE ZipAll(IF Head(items).result # <<>>
              THEN ZipFile(files, ConvertedName(Head(items), ext),
                           Head(items).result[1].blob)
              ELSE files,
              Tail(items), ext)

\* the Download All button: rendered when all items are complete, disabled
\* while zipping
DownloadAllEnabled == isAllComplete /\ ~isZipping

\* the archive downloadAll fills from a queue under settings s
Archive(q, s) == ZipAll({}, completedItems(q), getExtension(s))

\* downloadAll up to its await: the archive is filled and generateAsync
\* is called
downloadAll ==
  /\ DownloadAllEnabled
  /\ Len(completedItems(queue)) # 0
  /\ isZipping' = TRUE
  /\ zip' = [pc |-> "generate", files |-> Archive(queue, settings),
             last |-> zip.last]
  /\ UNCHANGED <<queue, settings, runs, urls, nextId>>

\* faulty variant: setIsZipping(false) closes the try block instead
FinallyInTry(outcome) ==
  /\ isZipping' = (outcome = "error")
  /\ zip' = [NoZip EXCEPT !.last = outcome]

\* finally { setIsZipping(false) }, after the try block or the catch
Finally(outcome) ==
  /\ isZipping' = FALSE
  /\ zip' = [NoZip EXCEPT !.last = outcome]

\* await zip.generateAsync resolves: the archive gets an object URL, the
\* link is clicked and the URL is revoked, all before the step ends, so
\* urls, which holds the URLs that outlive a step, is as before
generateResolved ==
  /\ zip.pc = "generate"
  /\ Finally("saved")
  /\ UNCHANGED <<queue, settings, runs, urls, nextId>>

\* await zip.generateAsync rejects: the catch logs the error
generateRejected ==
  /\ zip.pc = "generate"
  /\ Finally("error")
  /\ UNCHANGED <<queue, settings, runs, urls, nextId>>

(* --------------------------- specification -------------------------- *)
Next ==
  \/ \E files \in FileLists : handleFiles(files)
  \/ \E id \in 1..MaxFiles : removeItem(id)
  \/ clearQueue
  \/ toggleAI
  \/ \E r \in 1..MaxRuns : processBatch(r)
  \/ \E r \in 1..MaxRuns : convertResolved(r)
  \/ \E r \in 1..MaxRuns : convertRejected(r)
  \/ \E r \in 1..MaxRuns : base64Resolved(r)
  \/ \E r \in 1..MaxRuns : base64Rejected(r)
  \/ \E r \in 1..MaxRuns, a \in Analyses : analyzeResolved(r, a)
  \/ \E r \in 1..MaxRuns : analyzeRejected(r)

Spec == Init /\ [][Next]_vars

\* the same with the settings controls of the configuration card
NextSettings ==
  \/ Next
  \/ setRaster
  \/ setVector
  \/ \E fmt \in RasterFormats : setFormat(fmt)

SpecSettings == Init /\ [][NextSettings]_vars

\* the same as Spec with the adapter's timeout. The conversion and the
\* reading of the file settle, and the timeout fires when the remote call
\* is still awaited; the remote call itself need not ever answer
NextTimeout ==
  \/ Next
  \/ \E r \in 1..MaxRuns : analyzeTimedOut(r)

FairTimeout ==
  \A r \in 1..MaxRuns :
    /\ WF_vars(convertResolved(r) \/ convertRejected(r))
    /\ WF_vars(base64Resolved(r) \/ base64Rejected(r))
    /\ WF_vars(analyzeTimedOut(r))

SpecTimeout == Init /\ [][NextTimeout]_vars /\ FairTimeout

\* the queue with files of different names, the mode and format controls,
\* conversion without annotation, and the archive download
NextExport ==
  \/ \E files \in NamedFileLists : handleFiles(files)
  \/ \E id \in 1..MaxFiles : removeItem(id)
  \/ clearQueue
  \/ setRaster
  \/ setVector
  \/ \E fmt \in RasterFormats : setFormat(fmt)
  \/ \E r \in 1..MaxRuns : processBatch(r)
  \/ \E r \in 1..MaxRuns : convertResolved(r)
  \/ \E r \in 1..MaxRuns : convertRejected(r)
  \/ downloadAll
  \/ generateResolved
  \/ generateRejected

SpecExport == Init /\ [][NextExport]_vars

\* Spec with the ids left to Math.random: each new item gets any id of the
\* id space
NextRandomIds ==
  \/ \E files \in FileLists, ids \in [1..2 -> GeneratedIds] :
       handleFilesWithIds(files, ids)
  \/ \E id \in GeneratedIds : removeItem(id)
  \/ clearQueue
  \/ toggleAI
  \/ \E r \in 1..MaxRuns : processBatch(r)
  \/ \E r \in 1..MaxRuns : convertResolved(r)
  \/ \E r \in 1..MaxRuns : convertRejected(r)
  \/ \E r \in 1..MaxRuns : base64Resolved(r)
  \/ \E r \in 1..MaxRuns : base64Rejected(r)
  \/ \E r \in 1..MaxRuns, a \in Analyses : analyzeResolved(r, a)
  \/ \E r \in 1..MaxRuns : analyzeRejected(r)

SpecRandomIds == Init /\ [][NextRandomIds]_vars

\* Spec where every awaited call settles: the conversion, the reading of
\* the file and the annotation each resolve or reject
FairSettle ==
  \A r \in 1..MaxRuns :
    /\ WF_vars(convertResolved(r) \/ convertRejected(r))
    /\ WF_vars(base64Resolved(r) \/ base64Rejected(r))
    /\ WF_vars((\E a \in Analyses : analyzeResolved(r, a))
                 \/ analyzeRejected(r))

SpecProgress == Init /\ [][Next]_vars /\ FairSettle

(* ------------------------------ claims ------------------------------ *)
Runs == 1..MaxRuns

InProgress(r) == runs[r].pc \in {"convert", "b64", "analyze"}

\* the position of the item with this id in a queue or a snapshot
Pos(q, id) == CHOOSE k \in 1..Len(q) : q[k].id = id

\* the status of the item with this id
StatusOf(q, id) == q[Pos(q, id)].status

Resolved == {COMPLETE, ERROR}

\* C1 Batch isolation: when a run ends and every item it selected is still
\* in the queue (which is the case when nothing was removed or cleared
\* meanwhile), exactly the items whose conversion failed have status ERROR
\* and every other selected item has status COMPLETE; so a failure never
\* keeps the items after it from being converted.
BatchIsolation ==
  [][\A r \in Runs :
       (/\ InProgress(r)
        /\ runs'[r].pc = "done"
        /\ Ids(runs'[r].items) \subseteq Ids(queue'))
       => \A id \in Ids(runs'[r].items) :
            StatusOf(queue', id) =
              IF id \in runs'[r].failed THEN ERROR ELSE COMPLETE]_vars

\* C1 witness: a run of two items has ended, its first conversion failed,
\* its second succeeded, and both items are in the queue
BatchIsolationWitness ==
  \E r \in Runs :
    /\ runs[r].pc = "done"
    /\ Len(runs[r].items) = 2
    /\ runs[r].failed = {runs[r].items[1].id}
    /\ Ids(runs[r].items) \subseteq Ids(queue)
    /\ StatusOf(queue, runs[r].items[1].id) = ERROR
    /\ StatusOf(queue, runs[r].items[2].id) = COMPLETE

\* C2 Status transitions: in every step an item keeps its status or moves
\* along Idle->Processing, Error->Processing, Processing->Complete or
\* Processing->Error.
AllowedTransitions ==
  {<<IDLE, PROCESSING>>, <<ERROR, PROCESSING>>,
   <<PROCESSING, COMPLETE>>, <<PROCESSING, ERROR>>}

StatusTransitions ==
  [][\A id \in Ids(queue) \cap Ids(queue') :
       \/ StatusOf(queue', id) = StatusOf(queue, id)
       \/ <<StatusOf(queue, id), StatusOf(queue', id)>> \in AllowedTransitions
    ]_vars

\* C2 witness: an item that failed, was retried and then completed sits in
\* the queue next to an item another run is still processing
StatusTransitionsWitness ==
  /\ \E k \in 1..Len(queue) :
       queue[k].status = COMPLETE /\ queue[k].error # <<>>
  /\ \E k \in 1..Len(queue) : queue[k].status = PROCESSING

\* C3 Result and error: an item has a result iff it is COMPLETE, an error
\* message iff it is ERROR, and never both.
ResultErrorExclusive ==
  \A k \in 1..Len(queue) :
    /\ (queue[k].result # <<>>) <=> (queue[k].status = COMPLETE)
    /\ (queue[k].error # <<>>) <=> (queue[k].status = ERROR)
    /\ ~(queue[k].result # <<>> /\ queue[k].error # <<>>)

\* C4 AI failure isolation: an item whose annotation failed is COMPLETE
\* with an empty description and no tags, as long as it is in the queue,
\* and the loop has gone past it.
AnnotationFailureIsolated ==
  \A r \in Runs : \A id \in runs[r].aiFailed :
    /\ Pos(runs[r].items, id) < runs[r].idx
    /\ id \in Ids(queue) =>
         LET item == queue[Pos(queue, id)] IN
         /\ item.status = COMPLETE
         /\ Len(item.result) = 1
         /\ item.result[1].aiDescription = ""
         /\ item.result[1].aiTags = <<>>

\* C4 witness: the annotation of the first of two items failed, the item
\* is COMPLETE and the run is converting the second
AnnotationFailureWitness ==
  \E r \in Runs :
    /\ Len(runs[r].items) = 2
    /\ runs[r].aiFailed = {runs[r].items[1].id}
    /\ runs[r].pc = "convert"
    /\ runs[r].items[1].id \in Ids(queue)
    /\ StatusOf(queue, runs[r].items[1].id) = COMPLETE

\* C5 Handle ownership: no URL is revoked twice, every URL not yet revoked
\* belongs to an item of the queue (or is held by the loop for the item it
\* is at, which is in the queue), and with an empty queue and no run in
\* progress every URL created has been revoked.
OwnedUrls ==
  UNION {ItemUrls(queue[k]) : k \in 1..Len(queue)}
  \cup {runs[r].url : r \in {p \in Runs : /\ runs[p].pc \in {"b64", "analyze"}
                                         /\ CurrentItem(runs[p]).id
                                              \in Ids(queue)}}

HandleOwnership ==
  /\ \A u \in 1..Len(urls) : urls[u] <= 1
  /\ \A u \in 1..Len(urls) : urls[u] = 0 => u \in OwnedUrls
  /\ (queue = <<>> /\ \A r \in Runs : ~InProgress(r))
       => \A u \in 1..Len(urls) : urls[u] = 1

\* C6 Sequential processing: at most one conversion pipeline is in flight.
SequentialProcessing ==
  Cardinality({r \in Runs : InProgress(r)}) <= 1

\* C7 Completion order: a step that resolves an item of a run's snapshot
\* finds every item before it in the snapshot already resolved (or gone).
CompletionOrder ==
  [][\A r \in Runs : \A k \in 1..Len(runs[r].items) :
       LET id == runs[r].items[k].id IN
       (/\ InProgress(r)
        /\ id \in Ids(queue) \cap Ids(queue')
        /\ StatusOf(queue, id) = PROCESSING
        /\ StatusOf(queue', id) \in Resolved)
       => \A j \in 1..(k - 1) :
            LET before == runs[r].items[j].id IN
            before \in Ids(queue) => StatusOf(queue, before) \in Resolved
    ]_vars

\* C7 witness: a run of two items has resolved both, and both are in the
\* queue
CompletionOrderWitness ==
  \E r \in Runs :
    /\ runs[r].pc = "done"
    /\ Len(runs[r].items) = 2
    /\ \A id \in Ids(runs[r].items) :
         id \in Ids(queue) /\ StatusOf(queue, id) \in Resolved

\* C8 Batch-complete signal: when no item is PROCESSING, no run is in
\* progress.
BatchCompleteSignal ==
  ~isProcessing => \A r \in Runs : ~InProgress(r)

\* C9 Atomic marking: every item of a run in progress that the loop has
\* not resolved yet shows PROCESSING, never its pre-run status.
AtomicMarking ==
  \A r \in Runs : InProgress(r) =>
    \A k \in runs[r].idx..Len(runs[r].items) :
      runs[r].items[k].id \in Ids(queue)
        => StatusOf(queue, runs[r].items[k].id) = PROCESSING

\* C9 witness: the first item of a run is resolved while the second, still
\* to be converted, shows PROCESSING
AtomicMarkingWitness ==
  \E r \in Runs :
    /\ InProgress(r)
    /\ runs[r].idx = 2
    /\ Ids(runs[r].items) \subseteq Ids(queue)
    /\ StatusOf(queue, runs[r].items[1].id) \in Resolved
    /\ StatusOf(queue, runs[r].items[2].id) = PROCESSING

\* C10 Pending selection and retry: a run that starts takes exactly the
\* IDLE and ERROR items, each once, in queue order (so an item left in
\* ERROR is taken again); and the loop never converts an item of its
\* snapshot a second time: it stays at an item or moves to the next one,
\* and starts a conversion only when it moves.
PendingSelection ==
  [][\A r \in Runs :
       /\ (runs[r].pc = "none" /\ runs'[r].pc # "none") =>
            LET items == runs'[r].items IN
            /\ \A k \in 1..Len(queue) :
                 (queue[k].id \in Ids(items))
                   <=> (queue[k].status \in {IDLE, ERROR})
            /\ \A a \in 1..Len(items) : \A b \in 1..Len(items) :
                 a < b => Pos(queue, items[a].id) < Pos(queue, items[b].id)
       /\ runs[r].pc # "none" =>
            /\ runs'[r].items = runs[r].items
            /\ runs'[r].idx \in {runs[r].idx, runs[r].idx + 1}
            /\ (runs'[r].pc = "convert" /\ runs'[r].idx = runs[r].idx)
                 => runs[r].pc = "convert"
    ]_vars

\* C10 witness: the second run has taken an item whose conversion failed in
\* the first run
PendingSelectionWitness ==
  /\ runs[1].pc = "done"
  /\ runs[2].pc # "none"
  /\ Ids(runs[2].items) \cap runs[1].failed # {}

\* the conversion arguments processImageClientSide gets under settings s
\* for a file
ConvertedUnder(file, s) ==
  [file |-> file, format |-> s.format, quality |-> s.quality,
   resizeRatio |-> s.resizeRatio, isVector |-> s.isVector,
   colorCount |-> s.colorCount]

\* the items of its snapshot a run has converted with success and that are
\* still in the queue, by position in the snapshot
CompletedBy(r) ==
  {k \in 1..Len(runs[r].items) :
     /\ k < runs[r].idx
     /\ runs[r].items[k].id \notin runs[r].failed
     /\ runs[r].items[k].id \in Ids(queue)}

\* every item a run has completed carries a blob converted under the
\* settings the run holds
ConvertedUnderRunSettings ==
  \A r \in Runs : \A k \in CompletedBy(r) :
    LET item == queue[Pos(queue, runs[r].items[k].id)] IN
    /\ item.status = COMPLETE
    /\ Len(item.result) = 1
    /\ item.result[1].blob = ConvertedUnder(item.file, runs[r].settings)

\* C11 Settings consistency within a run: a run holds the settings in
\* effect at the step that started it and keeps them to its end, whatever
\* the user changes meanwhile; every item it completes was converted under
\* them, and it goes on to the annotation of a converted item exactly when
\* they have useAIAnalysis on.
SettingsConsistency ==
  [][/\ ConvertedUnderRunSettings'
     /\ \A r \in Runs :
          /\ (runs[r].pc = "none" /\ runs'[r].pc # "none")
               => runs'[r].settings = settings
          /\ runs[r].pc # "none" => runs'[r].settings = runs[r].settings
          /\ (runs[r].pc = "convert" /\ runs'[r] # runs[r]
                /\ CurrentItem(runs[r]).id \notin runs'[r].failed)
               => (runs'[r].pc = "b64" <=> runs[r].settings.useAIAnalysis)
    ]_vars

\* C11 witness: the first of two items was converted to JPEG, the format
\* and the AI switch were changed since the run started, and the run is
\* converting the second item
SettingsConsistencyWitness ==
  \E r \in Runs :
    /\ runs[r].pc = "convert"
    /\ runs[r].idx = 2
    /\ 1 \in CompletedBy(r)
    /\ runs[r].settings.format = JPEG
    /\ settings.format = SVG
    /\ settings.useAIAnalysis # runs[r].settings.useAIAnalysis

\* C12 Annotation timeout: a run that awaits the annotation of its k-th
\* item gets past that item, which is then COMPLETE if it is still in the
\* queue, and the run reaches its end, so the items after it are processed;
\* this needs no answer from the remote call.
AnnotationTimeout ==
  \A r \in Runs : \A k \in 1..MaxFiles :
    /\ (runs[r].pc \in {"b64", "analyze"} /\ runs[r].idx = k)
         ~> (/\ runs[r].idx > k
             /\ runs[r].items[k].id \in Ids(queue)
                  => StatusOf(queue, runs[r].items[k].id) = COMPLETE)
    /\ (runs[r].pc \in {"b64", "analyze"}) ~> (runs[r].pc = "done")

\* C12 witness: a run with annotation on has completed its first item with
\* an empty description although neither the file reading nor the remote
\* call failed (the timeout fired), and is converting its second item
AnnotationTimeoutWitness ==
  \E r \in Runs :
    /\ runs[r].settings.useAIAnalysis
    /\ runs[r].pc = "convert"
    /\ runs[r].idx = 2
    /\ 1 \in CompletedBy(r)
    /\ runs[r].aiFailed = {}
    /\ queue[Pos(queue, runs[r].items[1].id)].result[1].aiDescription = ""

\* the positions of the COMPLETE items and the archive entry each one is
\* meant to get under the settings of the moment
CompletePositions == {k \in 1..Len(queue) : queue[k].status = COMPLETE}

EntryName(k) ==
  [base |-> queue[k].file.name[1], suffix |-> "_converted",
   ext |-> getExtension(settings)]

EntryOf(k) == [name |-> EntryName(k), data |-> queue[k].result[1].blob]

\* C13 Archive contents: every entry of the archive downloadAll fills is
\* the entry of a COMPLETE item, named after its base name and holding its
\* blob; and when no two COMPLETE items yield the same entry name, every
\* COMPLETE item has its entry and there are as many entries as COMPLETE
\* items.
ArchiveContents ==
  LET archive == Archive(queue, settings) IN
  /\ \A f \in archive : \E k \in CompletePositions : f = EntryOf(k)
  /\ (\A j \in CompletePositions : \A k \in CompletePositions :
        j # k => EntryName(j) # EntryName(k))
       => /\ \A k \in CompletePositions : EntryOf(k) \in archive
          /\ Cardinality(archive) = Cardinality(CompletePositions)

\* C13 witness: downloadAll has filled an archive of two entries from a
\* queue of two complete items with different base names
ArchiveContentsWitness ==
  /\ zip.pc = "generate"
  /\ Len(queue) = 2
  /\ zip.files = Archive(queue, settings)
  /\ Cardinality(zip.files) = 2
  /\ queue[1].file.name[1] # queue[2].file.name[1]

\* C14 Archive failure isolation: the steps of downloadAll (its start, the
\* resolution and the rejection of generateAsync) leave the queue as it is,
\* and isZipping is true exactly while the archive is being generated, so
\* it is false again once downloadAll has ended, with a saved archive or
\* with an error.
ArchiveFailureIsolation ==
  [][/\ (zip' # zip \/ isZipping' # isZipping) => queue' = queue
     /\ isZipping' <=> (zip'.pc = "generate")
     /\ (zip.pc = "generate" /\ zip'.pc = "none")
          => ~isZipping' /\ zip'.last \in {"saved", "error"}
    ]_vars

\* C14 witness: a downloadAll has ended with an error; the queue is still
\* all complete and isZipping is false
ArchiveFailureWitness ==
  /\ zip.pc = "none"
  /\ zip.last = "error"
  /\ ~isZipping
  /\ isAllComplete

\* the extension the spec maps an output format to
ExtensionFor(format) ==
  IF format = JPEG THEN "jpg"
  ELSE IF format = PNG THEN "png"
  ELSE "svg"

\* C15 Download naming: the name downloadFile and downloadAll give a
\* COMPLETE item is its base name, "_converted" and the extension of the
\* format its blob was converted to.
DownloadNaming ==
  \A k \in CompletePositions :
    LET name == [base |-> queue[k].file.name[1], suffix |-> "_converted",
                 ext |-> ExtensionFor(queue[k].result[1].blob.format)] IN
    /\ downloadFile(queue[k], settings)[1].download = name
    /\ \E f \in Archive(queue, settings) : f.name = name

\* C16 Dequeue: for every id, removing it from the queue of a reachable
\* state takes out the item with that id and nothing else, keeps the others
\* in their order and revokes that item's preview and output URLs once;
\* when no item has the id, queue and URLs stay as they are, and removing
\* the same id again changes nothing.
Dequeue ==
  \A id \in 1..(MaxFiles + 1) :
    LET q2 == removeItemFiltered(queue, id)
        u2 == revokeObjectURL(urls, removeItemRevoked(queue, id)) IN
    /\ id \notin Ids(queue) => q2 = queue /\ u2 = urls
    /\ id \in Ids(queue) =>
         LET p == Pos(queue, id) IN
         /\ Len(q2) = Len(queue) - 1
         /\ \A k \in 1..Len(q2) : q2[k] = queue[IF k < p THEN k ELSE k + 1]
         /\ Len(u2) = Len(urls)
         /\ \A u \in 1..Len(urls) :
              u2[u] = IF u \in ItemUrls(queue[p]) THEN urls[u] + 1 ELSE urls[u]
    /\ removeItemFiltered(q2, id) = q2
    /\ revokeObjectURL(u2, removeItemRevoked(q2, id)) = u2

\* C16 witness: the first of two items was removed after its conversion;
\* the second is alone in the queue and two URLs, the preview and the
\* output of the removed item, are revoked
DequeueWitness ==
  /\ Len(queue) = 1
  /\ queue[1].id = 2
  /\ Cardinality({u \in 1..Len(urls) : urls[u] = 1}) = 2
  /\ \A u \in ItemUrls(queue[1]) : urls[u] = 0

\* C17 Intake: a handleFiles step keeps the items of the queue where and as
\* they are and appends one item per image file of its input, in input
\* order, with status IDLE and neither result nor error; the other files
\* leave no item.
Intake ==
  [][\A files \in FileLists :
       handleFiles(files) =>
         LET images == SelectSeq(files, LAMBDA f : f.type = "image/png")
             n == Len(queue) IN
         /\ Len(queue') = n + Len(images)
         /\ SubSeq(queue', 1, n) = queue
         /\ \A k \in 1..Len(images) :
              /\ queue'[n + k].file = images[k]
              /\ queue'[n + k].status = IDLE
              /\ queue'[n + k].result = <<>>
              /\ queue'[n + k].error = <<>>
    ]_vars

\* C17 witness: an item was added behind one that is already converted
IntakeWitness ==
  /\ Len(queue) = 2
  /\ queue[1].status = COMPLETE
  /\ queue[1].result # <<>>
  /\ queue[2].status = IDLE

\* no item of the queue is IDLE or ERROR
NonePending == \A k \in 1..Len(queue) : queue[k].status \notin {IDLE, ERROR}

\* C18 Empty batch: in a state where no item is IDLE or ERROR, processBatch
\* leaves the queue as it is and starts no run, hence no conversion and no
\* annotation, and creates no URL.
EmptyBatch ==
  NonePending =>
    /\ processBatchQueue(queue) = queue
    /\ processBatchRun(queue, settings) = NoRun

\* C18 witness: a queue of a converted item and one being converted
EmptyBatchWitness ==
  /\ Len(queue) = 2
  /\ queue[1].status = COMPLETE
  /\ queue[2].status = PROCESSING

\* C19 Id uniqueness: no two items of the queue have the same id.
IdUniqueness ==
  \A j \in 1..Len(queue) : \A k \in 1..Len(queue) :
    j # k => queue[j].id # queue[k].id

\* an item of the queue is PROCESSING
Processing(id) == id \in Ids(queue) /\ StatusOf(queue, id) = PROCESSING

\* every item that is PROCESSING gets COMPLETE or ERROR or leaves the queue
ProcessingResolves ==
  \A id \in 1..MaxFiles :
    Processing(id) ~> (id \notin Ids(queue) \/ StatusOf(queue, id) \in Resolved)

\* the loop of run r has ended and an item it selected is PROCESSING
ProcessingAfterLoop(r) ==
  /\ runs[r].pc = "done"
  /\ \E k \in 1..Len(runs[r].items) : Processing(runs[r].items[k].id)

\* the loop of a run in progress still has this item to resolve
Ahead(r, id) ==
  /\ InProgress(r)
  /\ \E k \in runs[r].idx..Len(runs[r].items) : runs[r].items[k].id = id

\* C20 as stated: every PROCESSING item is resolved or removed, and
\* whenever the loop of a run has ended none of the items it selected is
\* PROCESSING.
ProgressAsStated ==
  /\ ProcessingResolves
  /\ [](\A r \in Runs : ~ProcessingAfterLoop(r))

\* C20 Progress: when every awaited call settles, every PROCESSING item is
\* resolved or removed, and at all times every PROCESSING item of the queue
\* is one that a run in progress has still to resolve: an item is PROCESSING
\* after the loop of a run that selected it has ended only when a later run
\* has selected it again.
Progress ==
  /\ ProcessingResolves
  /\ [](\A id \in 1..MaxFiles :
          Processing(id) => \E r \in Runs : Ahead(r, id))

\* C20 witness: an item that failed in the first run was selected again by
\* the second; both loops have ended and the item is COMPLETE
ProgressWitness ==
  /\ runs[1].pc = "done"
  /\ runs[2].pc = "done"
  /\ \E id \in Ids(runs[1].items) \cap Ids(runs[2].items) :
       id \in Ids(queue) /\ StatusOf(queue, id) = COMPLETE

\* a step of the loop of run r: one of its awaited calls settles
LoopStep(r) == InProgress(r) /\ runs'[r] # runs[r]

\* C21 Removal during a run: when the loop of a run settles an item that
\* is no longer in the queue, by completion or by failure, the queue stays
\* as it is: the item does not come back and no other item changes.
RemovalDuringRun ==
  [][\A r \in Runs :
       (LoopStep(r) /\ CurrentItem(runs[r]).id \notin Ids(queue))
         => queue' = queue
    ]_vars

\* C21 witness: the first item of a run was removed and converted
\* afterwards (its output URL is live and no item holds it); the run has
\* ended, and the other item it selected is in the queue, resolved
RemovalDuringRunWitness ==
  /\ runs[1].pc = "done"
  /\ Len(runs[1].items) = 2
  /\ runs[1].items[1].id \notin Ids(queue)
  /\ runs[1].items[1].id \notin runs[1].failed
  /\ runs[1].items[2].id \in Ids(queue)
  /\ StatusOf(queue, runs[1].items[2].id) \in Resolved
  /\ \E u \in 1..Len(urls) :
       urls[u] = 0 /\ \A k \in 1..Len(queue) : u \notin ItemUrls(queue[k])

\* the item with this id is in the queue before and after the step
Stays(id) == id \in Ids(queue) /\ id \in Ids(queue')

\* the item with this id is the same before and after the step
Same(id) == queue'[Pos(queue', id)] = queue[Pos(queue, id)]

\* C22 Run scope: a step of processBatch, its start or a step of its loop,
\* changes no item outside the snapshot of that run and neither adds nor
\* removes one; an IDLE item leaves IDLE only by the start of a run, so an
\* item added during a run stays IDLE until a later processBatch; and a
\* COMPLETE item keeps its status and result as long as it is in the queue.
RunScope ==
  [][/\ \A r \in Runs :
          (LoopStep(r) \/ (runs[r].pc = "none" /\ runs'[r].pc # "none"))
            => /\ Ids(queue') = Ids(queue)
               /\ \A id \in Ids(queue) \ Ids(runs'[r].items) : Same(id)
     /\ \A id \in 1..MaxFiles :
          /\ (Stays(id) /\ StatusOf(queue, id) = IDLE
                /\ StatusOf(queue', id) # IDLE)
               => \E r \in Runs : /\ runs[r].pc = "none"
                                  /\ id \in Ids(runs'[r].items)
          /\ (Stays(id) /\ StatusOf(queue, id) = COMPLETE) => Same(id)
    ]_vars

\* C22 witness: the first run has ended and left the first item COMPLETE;
\* the second run, in progress, selected the second item only, and the
\* first item is COMPLETE as it was when that run started
RunScopeWitness ==
  /\ Len(queue) = 2
  /\ queue[1].status = COMPLETE
  /\ queue[2].status = PROCESSING
  /\ runs[1].pc = "done"
  /\ InProgress(2)
  /\ Ids(runs[2].items) = {queue[2].id}

=============================================================================
